---- MODULE Spec2Model ----
(***************************************************************************)
(* Model of the 7days_pickup pipeline:                                     *)
(*   app.py              get_arxiv_dates, run_data_pipeline                *)
(*   run_pipeline.py     main, check_and_run_pipeline                      *)
(*   arxiv_daily_fetcher.py  main, fetch_arxiv_papers_by_date, save_to_csv *)
(*   summarize_by_zai.py main, find_csv_files, process_file,               *)
(*                       get_summary_from_zai                              *)
(*                                                                         *)
(* Dates are day numbers; day 0 is Thursday 2024-03-07, so that a weekend  *)
(* lies inside small ranges.  Strings are sequences of tokens, a token     *)
(* standing for a run of characters that the code never splits.            *)
(***************************************************************************)
EXTENDS Integers, Sequences, FiniteSets, TLC

(* ------------------------------ bounds --------------------------------- *)
\* days_to_show ranges over 1..MaxUnits
MaxUnits == 8
\* the current UTC instant falls on one of the days 0..MaxNow
MaxNow == 7

\* the dates given to run_pipeline.py and summarize_by_zai.py are 1..MaxDay
MaxDay == 2
\* the catalog holds PerDay distinct papers for every publication day
PerDay == 2
\* longest catalog answer to one category query, fetcher run on its own
MaxFeed == 3
\* longest catalog answer to one category query, full pipeline
MaxFeedP == 1
\* number of program invocations in one behaviour
MaxRuns == 2
\* most rows of a file the summarizer run on its own starts with
MaxRows == 3

(* ------------------------- program constants --------------------------- *)
\* app.py:11
DAYS_TO_SHOW == 7
\* app.py:30  et_now.replace(hour=14, minute=0, ...)
CutoffHour == 14

VARIABLES
    \* ---- get_arxiv_dates (app.py) ----
    utc_now,        \* datetime.now(utc_zone): [day, hour, minute]
    et_offset,      \* hours US/Eastern is behind UTC at utc_now (4 in DST, 5 otherwise)
    days_to_show,   \* the argument of get_arxiv_dates
    window,         \* the returned (start_date, end_date)
    wpc,            \* fetch_and_display_papers: "call" before get_arxiv_dates
                    \* has run, "returned" after, "pipeline" once
                    \* run_data_pipeline is called
    \* ---- the world outside the programs ----
    answers,        \* what client.chat.completions.create can do in this
                    \* behaviour: a subset of AnnotatorOutcomes
    catalog,        \* arXiv: category code -> the sequence client.results() yields
    files,          \* the working directory: file name -> content
    \* ---- arxiv_daily_fetcher.py ----
    f_pc,           \* "off", "loop" (for category in ...), "combine", "exit"
    f_args,         \* args: [categories, keywords, date]
    f_i,            \* index of the next category of the for loop
    all_papers_dfs, \* list of the non-empty per-category DataFrames
    f_log,          \* history: per category queried, [read, papers_data]
    \* ---- summarize_by_zai.py ----
    s_pc,           \* "off", "files" (for filepath in csv_files), "rows", "exit",
                    \* "killed", "died" (ended by an exception that is not caught)
    s_args,         \* args: [categories]; the dates of args.date are used by
                    \* find_csv_files only
    csv_files,      \* the files of find_csv_files not yet processed
    filepath,       \* process_file: its argument
    df,             \* process_file: the DataFrame in memory,
                    \*               [has_summarization, rows, shape]
    to_process,     \* process_file: the index labels of to_process_df
    s_k,            \* process_file: position of the row loop in to_process
    df0,            \* history: the table as read by pd.read_csv
    pass_calls,     \* history: the calls of get_summary_from_zai in this pass,
                    \*          [index, outcome] in call order
    saved,          \* history: "none" before process_file reaches to_csv, then
                    \*          "ok" or "OSError"
    \* ---- run_pipeline.py ----
    o_pc,           \* "off", "loop", "step1", "step2", "done", "killed",
                    \* "rejected" (exit() after a date that does not parse)
    o_args,         \* args.categories, args.date, and start_date and end_date
                    \* as main parses them
    current_date,   \* main: the loop variable
    exit_code,      \* exit status of the run_pipeline.py process
    visited,        \* history: dates given to check_and_run_pipeline, in order
    failed,         \* history: dates whose step 1 or step 2 failed in this run
    \* ---- history of invocations ----
    runs,           \* number of program invocations so far
    files0,         \* the directory when the current invocation started
    run_calls,      \* <<file, arxiv_url>> given to the annotator in this invocation
    last,           \* the invocation that ended last: [kind, args, collect_failed]
    before,         \* value of last when the current invocation started
    collect_failed, \* step 1 could not run or its file write raised in this invocation
    \* ---- invocations of run_pipeline.py that overlap in time ----
    procs           \* invocation -> [pc, df, to_process, k, failed]: where the
                    \* invocation and its sub-process stand, and their locals

wvars == <<utc_now, et_offset, days_to_show, window, wpc>>
evars == <<catalog, files, answers>>
fvars == <<f_pc, f_args, f_i, all_papers_dfs, f_log>>
svars == <<s_pc, s_args, csv_files, filepath, df, to_process, s_k, df0, pass_calls, saved>>
ovars == <<o_pc, o_args, current_date, exit_code, visited, failed>>
hvars == <<runs, files0, run_calls, last, before, collect_failed>>
cvars == <<procs>>

(* ======================================================================= *)
(*                      app.py : get_arxiv_dates                           *)
(* ======================================================================= *)

\* date.weekday(): Monday = 0 ... Sunday = 6; day 0 is a Thursday
weekday(d) == (d + 3) % 7

\* utc_now.astimezone(et_zone): shift the wall clock back by the zone offset
astimezone_et(t, off) ==
    IF t.hour >= off
    THEN [day |-> t.day, hour |-> t.hour - off, minute |-> t.minute]
    ELSE [day |-> t.day - 1, hour |-> t.hour + 24 - off, minute |-> t.minute]

\* variant: the cutoff instant itself still counts as before the cutoff
cutoff_reached_strictly(et_now) ==
    et_now.hour * 60 + et_now.minute > CutoffHour * 60

\* et_now >= et_now.replace(hour=14, minute=0, second=0, microsecond=0)
cutoff_reached(et_now) ==
    et_now.hour * 60 + et_now.minute >= CutoffHour * 60

\* lines 32-40: end_date = (et_now or et_now - 1 day).date()
end_date_of(et_now) ==
    IF cutoff_reached(et_now) THEN et_now.day ELSE et_now.day - 1

\* variant: only Sundays are skipped, a Saturday counts as a valid day
RECURSIVE walk_back_counting_saturdays(_, _, _)
walk_back_counting_saturdays(start_date, valid_days_counted, n) ==
    IF valid_days_counted < n
    THEN LET s == start_date - 1
         IN walk_back_counting_saturdays(s,
                      IF weekday(s) < 6 THEN valid_days_counted + 1
                                        ELSE valid_days_counted,
                      n)
    ELSE start_date

\* lines 44-52: the while loop walking start_date backwards
RECURSIVE walk_back(_, _, _)
walk_back(start_date, valid_days_counted, n) ==
    IF valid_days_counted < n
    THEN LET s == start_date - 1
         IN walk_back(s,
                      IF weekday(s) < 5 THEN valid_days_counted + 1
                                        ELSE valid_days_counted,
                      n)
    ELSE start_date

\* get_arxiv_dates(days_to_show) evaluated at the instant utc
get_arxiv_dates(utc, off, n) ==
    LET et_now   == astimezone_et(utc, off)
        end_date == end_date_of(et_now)
    IN  [start_date |-> walk_back(end_date, 1, n), end_date |-> end_date]

(* ======================================================================= *)
(*                       strings, dates, file names                        *)
(* ======================================================================= *)

\* arXiv category codes, e.g. "cs.AI"
csAI   == <<"cs", ".", "AI">>
statML == <<"stat", ".", "ML">>
\* the values of --categories the programs are started with
CatLists == {<<csAI>>, <<csAI, statML>>, <<statML, csAI>>}
\* the values of --keywords the fetcher is started with
KeywordLists == {<<>>, << <<"speech", " ", "synthesis">> >>}

\* str.replace(old, new) for a one-character old
replace(s, old, new) ==
    IF new = <<>> THEN SelectSeq(s, LAMBDA t : t # old)
    ELSE [i \in 1..Len(s) |-> IF s[i] = old THEN new[1] ELSE s[i]]

\* sep.join(list)
RECURSIVE join(_, _)
join(sep, list) ==
    IF list = <<>> THEN <<>>
    ELSE IF Len(list) = 1 THEN list[1]
    ELSE list[1] \o <<sep>> \o join(sep, Tail(list))

startswith(s, p) == Len(p) <= Len(s) /\ SubSeq(s, 1, Len(p)) = p
endswith(s, p) == Len(p) <= Len(s) /\ SubSeq(s, Len(s) - Len(p) + 1, Len(s)) = p

\* strftime('%Y-%m-%d') and strptime(..., '%Y-%m-%d') on the days 0..9
DateTable ==
    <<"2024-03-07", "2024-03-08", "2024-03-09", "2024-03-10", "2024-03-11",
      "2024-03-12", "2024-03-13", "2024-03-14", "2024-03-15", "2024-03-16">>
strftime(d) == DateTable[d + 1]
strptime(str) == CHOOSE d \in 0..(Len(DateTable) - 1) : DateTable[d + 1] = str
\* strftime('%Y%m%d'): eight digits, compared as strings; within March 2024
\* the string order is the order of these numbers
strftime_compact(d) == 20240307 + d

\* '-'.join(categories).replace('.', '')
categories_str(categories) == replace(join("-", categories), ".", <<>>)

\* f"arxiv_{categories_str}" and f"_{date_str}.csv"
pattern_prefix(categories) == <<"arxiv_">> \o categories_str(categories)
pattern_suffix(date_str) == <<"_", date_str, ".csv">>

\* variant: only the name made of the prefix and the suffix is accepted
matching_files_exact(dir, categories, date_str) ==
    {filename \in dir :
        filename = pattern_prefix(categories) \o pattern_suffix(date_str)}

\* the names in os.listdir('.') that the prefix/suffix test accepts
matching_files(dir, categories, date_str) ==
    {filename \in dir : /\ startswith(filename, pattern_prefix(categories))
                        /\ endswith(filename, pattern_suffix(date_str))}

(* ======================================================================= *)
(*                         arxiv_daily_fetcher.py                          *)
(* ======================================================================= *)

Days == 1..MaxDay
\* the dates the fetcher run on its own is started with, and the publication
\* dates around them: the day before, the day itself, the day after
FetchDates == {1}
FetchItemDays == {0, 1, 2}

\* one arxiv.Result: entry_id identifies the paper, published is its date
Result(d, k) == [kind |-> "item", entry_id |-> <<d, k>>, published |-> d]
ValidResults == {Result(d, k) : d \in FetchItemDays, k \in 1..PerDay}
\* the generator raising instead of yielding (network error, empty page)
RaisedError == [kind |-> "error", entry_id |-> <<0, 0>>, published |-> 0]

\* answers of the catalog to one query, drawn from a set of results: most
\* recent first, no result twice
FeedsOver(results, maxlen) ==
    {s \in UNION {[1..n -> results] : n \in 0..maxlen} :
        /\ \A i \in 1..(Len(s) - 1) : s[i].published >= s[i + 1].published
        /\ \A i, j \in 1..Len(s) : i # j => s[i] # s[j]}
SortedFeeds(maxlen) == FeedsOver(ValidResults, maxlen)
\* ... and the same answers broken off by an error
FailingFeeds(maxlen) ==
    {Append(s, RaisedError) : s \in SortedFeeds(maxlen - 1)}

\* the catalog answers a keyword query with the results whose title or
\* abstract contains a keyword: here the first paper of each day
keyword_hit(r, keywords) ==
    keywords = <<>> \/ r.kind = "error" \/ r.entry_id[2] = 1
client_results(cat, category, keywords) ==
    SelectSeq(cat[category], LAMBDA r : keyword_hit(r, keywords))

\* a row of the DataFrame / CSV.  summarization is "" when the cell is
\* empty or NaN or the column is missing; query is not a column: it records
\* which category query returned the row
NewRow(r, category_name) ==
    [arxiv_url |-> r.entry_id, published_date |-> strftime(r.published),
     summarization |-> "", query |-> category_name]

\* variant: the loop breaks at the first result of another date, newer or older
RECURSIVE scan_results_break_on_other(_, _, _, _, _)
scan_results_break_on_other(feed, i, category_name, target_date_str, papers_data) ==
    IF i > Len(feed)
    THEN [papers_data |-> papers_data, read |-> Len(feed), raised |-> FALSE]
    ELSE IF feed[i].kind = "error"
         THEN [papers_data |-> papers_data, read |-> i, raised |-> TRUE]
    ELSE IF strftime_compact(feed[i].published) = target_date_str
         THEN scan_results_break_on_other(feed, i + 1, category_name, target_date_str,
                  Append(papers_data, NewRow(feed[i], category_name)))
    ELSE [papers_data |-> papers_data, read |-> i, raised |-> FALSE]

\* lines 22-46: the for loop over results_generator inside try/except.
\* Gives papers_data, the number of results taken from the generator and
\* whether an except branch (lines 43-46) was taken.
RECURSIVE scan_results(_, _, _, _, _)
scan_results(feed, i, category_name, target_date_str, papers_data) ==
    IF i > Len(feed)
    THEN [papers_data |-> papers_data, read |-> Len(feed), raised |-> FALSE]
    ELSE IF feed[i].kind = "error"
         THEN [papers_data |-> papers_data, read |-> i, raised |-> TRUE]
    ELSE IF strftime_compact(feed[i].published) = target_date_str
         THEN scan_results(feed, i + 1, category_name, target_date_str,
                           Append(papers_data, NewRow(feed[i], category_name)))
    ELSE IF strftime_compact(feed[i].published) < target_date_str
         THEN [papers_data |-> papers_data, read |-> i, raised |-> FALSE]
    ELSE scan_results(feed, i + 1, category_name, target_date_str, papers_data)

\* fetch_arxiv_papers_by_date: the DataFrame returned (its rows) and the
\* number of results read
fetch_arxiv_papers_by_date(feed, category_name, target_date_str) ==
    scan_results(feed, 1, category_name, target_date_str, <<>>)

\* pd.concat(all_papers_dfs, ignore_index=True)
RECURSIVE concat(_)
concat(dfs) == IF dfs = <<>> THEN <<>> ELSE dfs[1] \o concat(Tail(dfs))

\* the rows of df at the positions in keep, in order
RECURSIVE take_rows(_, _, _)
take_rows(rows, keep, i) ==
    IF i > Len(rows) THEN <<>>
    ELSE (IF i \in keep THEN <<rows[i]>> ELSE <<>>) \o take_rows(rows, keep, i + 1)

\* variant: drop_duplicates(subset=['arxiv_url'], keep='last')
drop_duplicates_keep_last(rows) ==
    take_rows(rows,
              {i \in 1..Len(rows) :
                  \A j \in (i + 1)..Len(rows) : rows[j].arxiv_url # rows[i].arxiv_url},
              1)

\* drop_duplicates(subset=['arxiv_url'], keep='first')
drop_duplicates(rows) ==
    take_rows(rows,
              {i \in 1..Len(rows) :
                  \A j \in 1..(i - 1) : rows[j].arxiv_url # rows[i].arxiv_url},
              1)

\* main, lines 142-148: the output file name
keywords_str(keywords) ==
    IF keywords # <<>>
    THEN <<"_keywords_">> \o
         join("-", [k \in 1..Len(keywords) |-> replace(keywords[k], " ", <<"_">>)])
    ELSE <<>>
output_filename(categories, keywords, date) ==
    <<"arxiv_">> \o categories_str(categories) \o keywords_str(keywords)
        \o <<"_", strftime(date), ".csv">>

\* DataFrame.to_csv(filename): the directory after the write
to_csv(dir, filename, table) ==
    [n \in DOMAIN dir \cup {filename} |-> IF n = filename THEN table ELSE dir[n]]

\* variant: the file is written also when no category returned a row
combined_write_always(dir, dfs, filename) ==
    to_csv(dir, filename,
           [has_summarization |-> FALSE, rows |-> drop_duplicates(concat(dfs)),
            shape |-> "csv"])

\* main, lines 134-151 with save_to_csv: the DataFrames are combined,
\* de-duplicated and written; nothing is written when the list is empty
combined_write(dir, dfs, filename) ==
    IF dfs # <<>>
    THEN to_csv(dir, filename,
                [has_summarization |-> FALSE, rows |-> drop_duplicates(concat(dfs)),
                 shape |-> "csv"])
    ELSE dir

FetcherOff ==
    /\ f_pc = "off"
    /\ f_args = [categories |-> <<>>, keywords |-> <<>>, date |-> ""]
    /\ f_i = 0
    /\ all_papers_dfs = <<>>
    /\ f_log = <<>>

\* main, lines 69-120: the arguments are parsed, the client is created
LaunchFetcher(categories, keywords, date_str) ==
    /\ f_pc' = "loop"
    /\ f_args' = [categories |-> categories, keywords |-> keywords, date |-> date_str]
    /\ f_i' = 1
    /\ all_papers_dfs' = <<>>
    /\ f_log' = <<>>

\* variant: an error of the catalog leaves fetch_arxiv_papers_by_date and
\* ends the loop over the categories
next_category_abort(i, got) ==
    IF got.raised THEN Len(f_args.categories) + 1 ELSE i + 1

\* main, line 122: the for loop goes on with the next category whatever the
\* query met, the except branches of lines 43-46 let no exception out
next_category(i, got) == i + 1

\* main, lines 122-132: one iteration of "for category in search_categories"
FetchCategory ==
    /\ f_pc = "loop"
    /\ f_i <= Len(f_args.categories)
    /\ LET category == f_args.categories[f_i]
           got == fetch_arxiv_papers_by_date(
                      client_results(catalog, category, f_args.keywords),
                      category,
                      strftime_compact(strptime(f_args.date)))
       IN  /\ all_papers_dfs' = IF got.papers_data # <<>>
                                THEN Append(all_papers_dfs, got.papers_data)
                                ELSE all_papers_dfs
           /\ f_log' = Append(f_log, got)
           /\ f_i' = next_category(f_i, got)
    /\ UNCHANGED <<f_pc, f_args, catalog, answers, files, svars, ovars, hvars, wvars>>
    /\ UNCHANGED procs

\* main, lines 134-151 with save_to_csv: combine, de-duplicate, write.
\* The write can raise (caught in save_to_csv), the file is then not written.
FetcherCombine ==
    /\ f_pc = "loop"
    /\ f_i > Len(f_args.categories)
    /\ \E io \in IF all_papers_dfs # <<>> THEN {"ok", "OSError"} ELSE {"ok"} :
       /\ IF io = "ok"
          THEN files' = combined_write(files, all_papers_dfs,
                                       output_filename(f_args.categories,
                                                       f_args.keywords,
                                                       strptime(f_args.date)))
          ELSE files' = files
       /\ collect_failed' = (collect_failed \/ (all_papers_dfs # <<>> /\ io # "ok"))
       /\ UNCHANGED <<runs, files0, run_calls, last, before>>
    /\ f_pc' = "exit"
    /\ UNCHANGED <<f_args, f_i, all_papers_dfs, f_log, catalog, answers, svars, ovars, wvars>>
    /\ UNCHANGED procs

(* ======================================================================= *)
(*                           summarize_by_zai.py                           *)
(* ======================================================================= *)

\* the content of a file as pd.read_csv meets it.  shape is "csv" when the
\* file parses and has the columns title and summary that process_file
\* reads, "no_title" when it parses without one of them, "unparsable" when
\* read_csv raises (a file of zero bytes, a file cut inside its header)
NoFile == <<>>
NoTable == [has_summarization |-> FALSE, rows |-> <<>>, shape |-> "csv"]
\* the content of a file of zero bytes: open(filename, 'w') has truncated it
Truncated == [has_summarization |-> FALSE, rows |-> <<>>, shape |-> "unparsable"]

\* the cell texts pd.read_csv turns into NaN with its default na_values
\* ('', 'N/A', 'NA', 'NULL', 'NaN', 'n/a', 'nan', 'null', ...); of these the
\* model has the empty text and "N/A"
NaValues == {"", "N/A"}

\* the cells of a parsed file: a cell holding one of NaValues is NaN, which
\* the model writes as the empty text (isnull() and == '' are tested
\* together, and to_csv writes NaN as an empty cell)
parse_cells(content) ==
    [content EXCEPT !.rows =
        [i \in 1..Len(content.rows) |->
            IF content.rows[i].summarization \in NaValues
            THEN [content.rows[i] EXCEPT !.summarization = ""]
            ELSE content.rows[i]]]

\* variant: a file that cannot be parsed is read as a table without rows
read_csv_empty_on_error(content) ==
    [raised |-> FALSE,
     table |-> IF content.shape = "unparsable" THEN NoTable
               ELSE parse_cells(content)]

\* process_file lines 69-73: pd.read_csv(filepath) of a file that exists.
\* EmptyDataError and ParserError are not caught: they end the program.
read_csv(content) ==
    IF content.shape = "unparsable"
    THEN [raised |-> TRUE, table |-> NoTable]
    ELSE [raised |-> FALSE, table |-> parse_cells(content)]

\* what client.chat.completions.create does: it returns a summary ("ok"),
\* it returns the answer N/A ("na"), or it raises ("error")
AnnotatorOutcomes == {"ok", "na", "error"}

\* variant: the except branch returns an empty text
get_summary_empty_on_error(outcome) ==
    IF outcome = "ok" THEN "summary text"
    ELSE IF outcome = "na" THEN "N/A" ELSE ""

\* get_summary_from_zai: the text of the answer, or the text built in the
\* except branch, f"调用API失败: {e}"
get_summary_from_zai(outcome) ==
    IF outcome = "ok" THEN "summary text"
    ELSE IF outcome = "na" THEN "N/A" ELSE "API call failed: e"

\* find_csv_files(categories, start_date, end_date), as a set: list(set(...))
find_csv_files(dir, categories, start_date, end_date) ==
    UNION {matching_files(dir, categories, strftime(d)) : d \in start_date..end_date}

\* variant: every row is selected, whatever its summarization cell holds
rows_to_process_all(table) == [i \in 1..Len(table.rows) |-> i]

\* lines 75-81: the index labels of to_process_df, in the order of df
rows_to_process(table) ==
    LET empty == {i \in 1..Len(table.rows) :
                     ~table.has_summarization \/ table.rows[i].summarization = ""}
        RECURSIVE labels(_)
        labels(i) == IF i > Len(table.rows) THEN <<>>
                     ELSE (IF i \in empty THEN <<i>> ELSE <<>>) \o labels(i + 1)
    IN  labels(1)

\* variant: the column is set to '' whether it is there or not
with_column_cleared(table) ==
    [has_summarization |-> TRUE,
     rows |-> [i \in 1..Len(table.rows) |->
                  [table.rows[i] EXCEPT !.summarization = ""]],
     shape |-> table.shape]

\* lines 79-80: df['summarization'] = '' when the column is missing
with_column(table) ==
    IF table.has_summarization THEN table
    ELSE [has_summarization |-> TRUE,
          rows |-> [i \in 1..Len(table.rows) |->
                       [table.rows[i] EXCEPT !.summarization = ""]],
          shape |-> table.shape]

SummarizerOff ==
    /\ s_pc = "off"
    /\ s_args = [categories |-> <<>>]
    /\ csv_files = {}
    /\ filepath = NoFile
    /\ df = NoTable
    /\ to_process = <<>>
    /\ s_k = 1
    /\ df0 = NoTable
    /\ pass_calls = <<>>
    /\ saved = "none"

\* variant: the row loop and the write are reached with no row selected
to_process_never_empty(todo) == FALSE

\* lines 83-85: if to_process_df.empty: return
to_process_empty(todo) == todo = <<>>

\* main, lines 107-162: parse the arguments, find the files, create the client
LaunchSummarizer(categories, start_date, end_date) ==
    LET found == find_csv_files(DOMAIN files, categories, start_date, end_date)
    IN  /\ s_args' = [categories |-> categories]
        /\ csv_files' = found
        /\ s_pc' = IF found = {} THEN "exit" ELSE "files"
        /\ filepath' = NoFile
        /\ df' = NoTable
        /\ to_process' = <<>>
        /\ s_k' = 1
        /\ df0' = NoTable
        /\ pass_calls' = <<>>
        /\ saved' = "none"

\* process_file, lines 64-88: read the file, select the rows to process;
\* returns at once when there is none.  The files come in the arbitrary
\* order of list(set(found_files)).  When read_csv raises, the program ends
\* with a traceback and a non-zero status ("died").
ProcessFileLoad ==
    /\ s_pc = "files"
    /\ \E fp \in csv_files :
          LET read  == read_csv(files[fp])
              table == read.table
              todo  == rows_to_process(table)
          IN  /\ filepath' = fp
              /\ df0' = table
              /\ df' = with_column(table)
              /\ to_process' = todo
              /\ s_k' = 1
              /\ pass_calls' = <<>>
              /\ saved' = "none"
              /\ IF read.raised
                 THEN /\ csv_files' = csv_files
                      /\ s_pc' = "died"
                 ELSE IF to_process_empty(todo)
                 THEN /\ csv_files' = csv_files \ {fp}
                      /\ s_pc' = IF csv_files' = {} THEN "exit" ELSE "files"
                 ELSE /\ csv_files' = csv_files
                      /\ s_pc' = "rows"
    /\ UNCHANGED s_args
    /\ UNCHANGED <<evars, fvars, ovars, hvars, wvars>>
    /\ UNCHANGED procs

\* process_file, lines 90-98: one iteration of the row loop.  row['title']
\* and row['summary'] raise KeyError when the column is missing: the program
\* ends before any call is made.
AnnotateRow ==
    /\ s_pc = "rows"
    /\ s_k <= Len(to_process)
    /\ IF df.shape = "no_title"
       THEN /\ s_pc' = "died"
            /\ UNCHANGED <<df, pass_calls, run_calls, s_k>>
       ELSE /\ LET index == to_process[s_k]
               IN  /\ \E outcome \in answers :
                         /\ df' = [df EXCEPT !.rows[index].summarization =
                                                 get_summary_from_zai(outcome)]
                         /\ pass_calls' = Append(pass_calls,
                                                 [index |-> index,
                                                  outcome |-> outcome])
                   /\ run_calls' = run_calls
                                       \cup {<<filepath, df.rows[index].arxiv_url>>}
            /\ s_k' = s_k + 1
            /\ UNCHANGED s_pc
    /\ UNCHANGED <<s_args, csv_files, filepath, to_process, df0, saved>>
    /\ UNCHANGED <<runs, files0, last, before, collect_failed>>
    /\ UNCHANGED <<evars, fvars, ovars, wvars>>
    /\ UNCHANGED procs

\* process_file, lines 100-105: df.to_csv(filepath) after the loop; an
\* exception of the write is caught and printed
ProcessFileSave ==
    /\ s_pc = "rows"
    /\ s_k > Len(to_process)
    /\ \E io \in {"ok", "OSError"} :
          /\ files' = IF io = "ok" THEN to_csv(files, filepath, df) ELSE files
          /\ saved' = io
    /\ csv_files' = csv_files \ {filepath}
    /\ s_pc' = IF csv_files' = {} THEN "exit" ELSE "files"
    /\ UNCHANGED <<s_args, filepath, df, to_process, s_k, df0, pass_calls>>
    /\ UNCHANGED <<catalog, answers, fvars, ovars, hvars, wvars>>
    /\ UNCHANGED procs

(* ======================================================================= *)
(*                             run_pipeline.py                             *)
(* ======================================================================= *)

\* outcomes of subprocess.run(..., check=True)
RunOutcomes == {"ok", "CalledProcessError", "FileNotFoundError"}

\* no program is running
Idle ==
    /\ o_pc \in {"off", "done", "killed", "rejected"}
    /\ s_pc \in {"off", "exit", "killed", "died"}
    /\ f_pc \in {"off", "exit"}

OrchestratorOff ==
    /\ o_pc = "off"
    /\ o_args = [categories |-> <<>>, date |-> <<>>, start_date |-> 0, end_date |-> 0]
    /\ current_date = 0
    /\ exit_code = 0
    /\ visited = <<>>
    /\ failed = {}

\* the start of any program: what the history variables record
BeginInvocation ==
    /\ runs < MaxRuns
    /\ runs' = runs + 1
    /\ files0' = files
    /\ run_calls' = {}
    /\ before' = last
    /\ collect_failed' = FALSE
    /\ UNCHANGED last

\* the fetcher's variables when its process is gone
FetcherReset ==
    /\ f_pc' = "off"
    /\ f_args' = [categories |-> <<>>, keywords |-> <<>>, date |-> ""]
    /\ f_i' = 0
    /\ all_papers_dfs' = <<>>
    /\ f_log' = <<>>

\* the summarizer's variables when its process is gone
SummarizerReset ==
    /\ s_pc' = "off"
    /\ s_args' = [categories |-> <<>>]
    /\ csv_files' = {}
    /\ filepath' = NoFile
    /\ df' = NoTable
    /\ to_process' = <<>>
    /\ s_k' = 1
    /\ df0' = NoTable
    /\ pass_calls' = <<>>
    /\ saved' = "none"

\* str.split(sep): the parts of a text between the separators
RECURSIVE split(_, _)
split(s, sep) ==
    IF \A i \in 1..Len(s) : s[i] # sep THEN <<s>>
    ELSE LET i == CHOOSE j \in 1..Len(s) :
                      s[j] = sep /\ \A h \in 1..(j - 1) : s[h] # sep
         IN  <<SubSeq(s, 1, i - 1)>> \o split(SubSeq(s, i + 1, Len(s)), sep)

\* datetime.strptime(text, '%Y-%m-%d') returns a date (it raises ValueError
\* otherwise)
is_date(text) ==
    Len(text) = 1 /\ \E d \in 0..(Len(DateTable) - 1) : DateTable[d + 1] = text[1]

\* variant: when the end of a range does not parse, the start is used for it
parse_date_arg_lenient(date) ==
    LET parts == split(date, ":")
    IN  IF is_date(parts[1])
        THEN [error |-> FALSE, start_date |-> strptime(parts[1][1]),
              end_date |-> IF Len(parts) >= 2 /\ is_date(parts[2])
                           THEN strptime(parts[2][1])
                           ELSE strptime(parts[1][1])]
        ELSE [error |-> TRUE, start_date |-> 0, end_date |-> 0]

\* main lines 95-110: args.date is a range when it holds ':' and a single
\* date otherwise; a ValueError of the unpacking or of strptime is caught,
\* a message is printed and exit() is called
parse_date_arg(date) ==
    IF \E i \in 1..Len(date) : date[i] = ":"
    THEN LET parts == split(date, ":")
         IN  IF Len(parts) = 2 /\ is_date(parts[1]) /\ is_date(parts[2])
             THEN [error |-> FALSE, start_date |-> strptime(parts[1][1]),
                   end_date |-> strptime(parts[2][1])]
             ELSE [error |-> TRUE, start_date |-> 0, end_date |-> 0]
    ELSE IF is_date(date)
         THEN [error |-> FALSE, start_date |-> strptime(date[1]),
               end_date |-> strptime(date[1])]
         ELSE [error |-> TRUE, start_date |-> 0, end_date |-> 0]

\* app.py run_data_pipeline lines 64-75 and main lines 79-120:
\* python run_pipeline.py --categories *CATEGORIES --date ...
LaunchPipeline(date) ==
    LET parsed == parse_date_arg(date)
    IN  /\ o_args' = [categories |-> o_args.categories, date |-> date,
                      start_date |-> parsed.start_date,
                      end_date |-> parsed.end_date]
        /\ current_date' = parsed.start_date
        /\ o_pc' = IF parsed.error THEN "rejected" ELSE "loop"
        /\ exit_code' = 0
        /\ visited' = <<>>
        /\ failed' = {}
        /\ FetcherReset
        /\ SummarizerReset

\* the values of --date run_pipeline.py is started with: a date, a range,
\* and texts that are neither
DateArgs ==
    {<<strftime(a)>> : a \in Days}
        \cup {<<strftime(r[1]), ":", strftime(r[2])>> :
                  r \in {q \in Days \X Days : q[1] # q[2]}}
        \cup {<<"2024/03/08">>,
              <<strftime(1), ":", "tomorrow">>,
              <<strftime(1), ":">>,
              <<strftime(1), ":", strftime(1), ":", strftime(1)>>}

PipelineStart ==
    /\ Idle
    /\ BeginInvocation
    /\ \E date \in DateArgs : LaunchPipeline(date)
    /\ UNCHANGED <<evars, wvars>>
    /\ UNCHANGED procs

\* variant: the failure of a date ends the loop over the dates
failed_unit_abort(date) == o_args.end_date + 1

\* check_and_run_pipeline lines 45-51 and 65-71, then main line 123: the
\* except branches print and return, the loop goes on with the next date
failed_unit_return(date) == date + 1

\* variant: the check looks for the file of the following date
file_found_next_date(dir, categories, target_date) ==
    matching_files(dir, categories, strftime(target_date + 1)) # {}

\* check_and_run_pipeline lines 11-29 reached from main line 122
file_found(dir, categories, target_date) ==
    matching_files(dir, categories, strftime(target_date)) # {}

\* variant: the loop leaves the end date out
loop_continues_before_end(current, end_date) == current < end_date

\* main line 121: while current_date <= end_date
loop_continues(current, end_date) == current <= end_date

\* main lines 121-124 and check_and_run_pipeline for a date whose file is
\* found: nothing is run
UnitFound ==
    /\ o_pc = "loop"
    /\ loop_continues(current_date, o_args.end_date)
    /\ file_found(DOMAIN files, o_args.categories, current_date)
    /\ visited' = Append(visited, current_date)
    /\ current_date' = current_date + 1
    /\ UNCHANGED <<o_pc, o_args, exit_code, failed>>
    /\ UNCHANGED <<evars, fvars, svars, hvars, wvars>>
    /\ UNCHANGED procs

\* variant: the child is started and not waited for
subprocess_run_detached(pc) == pc # "off"

\* subprocess.run(command, check=True, ...) of lines 43 and 63 returns when
\* the child has exited
subprocess_run_returned(pc) == pc = "exit"

\* check_and_run_pipeline lines 29-51: no file found, step 1 is started
UnitStep1 ==
    /\ o_pc = "loop"
    /\ loop_continues(current_date, o_args.end_date)
    /\ ~file_found(DOMAIN files, o_args.categories, current_date)
    /\ visited' = Append(visited, current_date)
    /\ \E outcome \in RunOutcomes :
          IF outcome = "ok"
          THEN /\ LaunchFetcher(o_args.categories, <<>>, strftime(current_date))
               /\ o_pc' = "step1"
               /\ UNCHANGED <<current_date, failed, collect_failed>>
          ELSE /\ failed' = failed \cup {current_date}
               /\ collect_failed' = TRUE
               /\ current_date' = failed_unit_return(current_date)
               /\ UNCHANGED <<o_pc, fvars>>
    /\ UNCHANGED <<o_args, exit_code>>
    /\ UNCHANGED <<runs, files0, run_calls, last, before>>
    /\ UNCHANGED <<evars, svars, wvars>>
    /\ UNCHANGED procs

\* check_and_run_pipeline lines 53-71: the fetcher has exited with status
\* 0, step 2 is started
UnitStep2 ==
    /\ o_pc = "step1"
    /\ subprocess_run_returned(f_pc)
    /\ FetcherReset
    /\ \E outcome \in RunOutcomes :
          IF outcome = "ok"
          THEN /\ LaunchSummarizer(o_args.categories, current_date, current_date)
               /\ o_pc' = "step2"
               /\ UNCHANGED <<current_date, failed>>
          ELSE /\ failed' = failed \cup {current_date}
               /\ current_date' = failed_unit_return(current_date)
               /\ o_pc' = "loop"
               /\ UNCHANGED svars
    /\ UNCHANGED <<o_args, exit_code, visited>>
    /\ UNCHANGED <<evars, hvars, wvars>>
    /\ UNCHANGED procs

\* check_and_run_pipeline line 73 and main lines 123-124: the summarizer
\* has exited with status 0
UnitDone ==
    /\ o_pc = "step2"
    /\ subprocess_run_returned(s_pc)
    /\ SummarizerReset
    /\ current_date' = current_date + 1
    /\ o_pc' = "loop"
    /\ UNCHANGED <<o_args, exit_code, visited, failed>>
    /\ UNCHANGED <<evars, fvars, hvars, wvars>>
    /\ UNCHANGED procs

\* main lines 121 and 126: the loop ends, main returns, the process exits
PipelineExit ==
    /\ o_pc = "loop"
    /\ ~loop_continues(current_date, o_args.end_date)
    /\ o_pc' = "done"
    /\ exit_code' = 0
    /\ last' = [kind |-> "pipeline", args |-> o_args, collect_failed |-> collect_failed]
    /\ UNCHANGED <<o_args, current_date, visited, failed>>
    /\ UNCHANGED <<runs, files0, run_calls, before, collect_failed>>
    /\ UNCHANGED <<evars, fvars, svars, wvars>>
    /\ UNCHANGED procs

\* app.py run_data_pipeline lines 73-88: True when run_pipeline.py exited
\* with status 0, False on CalledProcessError
run_data_pipeline_result(status) == (status = 0)

\* python summarize_by_zai.py --categories ... --date a:b, run on its own
SummarizerStart ==
    /\ Idle
    /\ BeginInvocation
    /\ \E categories \in CatLists, start_date \in Days, end_date \in Days :
          LaunchSummarizer(categories, start_date, end_date)
    /\ o_pc' = "off"
    /\ UNCHANGED <<o_args, current_date, exit_code, visited, failed>>
    /\ FetcherReset
    /\ UNCHANGED <<evars, wvars>>
    /\ UNCHANGED procs

\* the running programs are interrupted (Ctrl-C, kill, power loss) inside
\* the row loop of process_file; what was in memory is gone
Interrupt ==
    /\ s_pc = "rows"
    /\ s_pc' = "killed"
    /\ o_pc' = IF o_pc = "off" THEN "off" ELSE "killed"
    /\ last' = [kind |-> "interrupted", args |-> o_args, collect_failed |-> collect_failed]
    /\ UNCHANGED <<s_args, csv_files, filepath, df, to_process, s_k, df0, pass_calls,
                   saved>>
    /\ UNCHANGED <<o_args, current_date, exit_code, visited, failed>>
    /\ UNCHANGED <<runs, files0, run_calls, before, collect_failed>>
    /\ UNCHANGED <<evars, fvars, wvars>>
    /\ UNCHANGED procs

(* ======================================================================= *)
(*                      initial states, specifications                     *)
(* ======================================================================= *)

EmptyDir == [n \in {} |-> NoTable]

\* the invocations of the overlapping runs, and one not yet started
Procs == {1, 2}
ProcOff == [pc |-> "off", df |-> NoTable, to_process |-> <<>>, k |-> 1,
            failed |-> FALSE]

HistoryOff ==
    /\ procs = [p \in Procs |-> ProcOff]
    /\ runs = 0
    /\ files0 = EmptyDir
    /\ run_calls = {}
    /\ last = [kind |-> "none",
               args |-> [categories |-> <<>>, date |-> <<>>, start_date |-> 0, end_date |-> 0],
               collect_failed |-> FALSE]
    /\ before = last
    /\ collect_failed = FALSE

WindowIdle ==
    /\ utc_now = [day |-> 0, hour |-> 0, minute |-> 0]
    /\ et_offset = 5
    /\ days_to_show = DAYS_TO_SHOW
    /\ window = [start_date |-> 0, end_date |-> 0]
    /\ wpc = "call"

\* the catalog of the pipeline runs: cs.AI papers are numbered 1, stat.ML
\* papers 2, each category has at most one paper on each of the dates
PipelineFeeds(k) == FeedsOver({Result(d, k) : d \in Days}, MaxFeedP)

\* run_pipeline.py is started by app.py run_data_pipeline with the list
\* CATEGORIES of the installation (app.py line 10), kept in o_args; the feed
\* of a category the installation never queries is left empty
PipelineCatLists == {<<csAI>>, <<csAI, statML>>}

Init ==
    /\ answers = {"ok", "error"}
    /\ WindowIdle
    /\ \E a \in PipelineFeeds(1), b \in PipelineFeeds(2) :
          catalog = [c \in {csAI, statML} |-> IF c = csAI THEN a ELSE b]
    /\ files = EmptyDir
    /\ FetcherOff /\ SummarizerOff /\ HistoryOff
    /\ o_pc = "off"
    /\ o_args \in [categories : PipelineCatLists, date : {<<>>},
                 start_date : {0}, end_date : {0}]
    /\ \A c \in {csAI, statML} :
          (\A i \in 1..Len(o_args.categories) : o_args.categories[i] # c)
              => catalog[c] = <<>>
    /\ current_date = 0
    /\ exit_code = 0
    /\ visited = <<>>
    /\ failed = {}

InitWindow ==
    /\ answers = {"ok", "error"}
    /\ utc_now \in [day : 0..MaxNow, hour : 0..23, minute : {0, 59}]
    /\ et_offset \in {4, 5}
    /\ days_to_show \in 1..MaxUnits
    /\ window = [start_date |-> 0, end_date |-> 0]
    /\ wpc = "call"
    /\ catalog = [c \in {csAI, statML} |-> <<>>]
    /\ files = EmptyDir
    /\ FetcherOff /\ SummarizerOff /\ OrchestratorOff /\ HistoryOff

\* app.py fetch_and_display_papers line 171: get_arxiv_dates is called
GetArxivDates ==
    /\ wpc = "call"
    /\ window' = get_arxiv_dates(utc_now, et_offset, days_to_show)
    /\ wpc' = "returned"
    /\ UNCHANGED <<utc_now, et_offset, days_to_show>>
    /\ UNCHANGED <<evars, fvars, svars, ovars, hvars>>
    /\ UNCHANGED procs

\* python arxiv_daily_fetcher.py --categories ... --keywords ... --date d
FetcherStart ==
    /\ f_pc = "off"
    /\ \E categories \in CatLists, keywords \in KeywordLists, date \in FetchDates :
          LaunchFetcher(categories, keywords, strftime(date))
    /\ UNCHANGED <<evars, svars, ovars, hvars, wvars>>
    /\ UNCHANGED procs

\* app.py fetch_and_display_papers lines 171-177 and run_data_pipeline
\* lines 63-75: the page is loaded, run_pipeline.py is started over the
\* whole range returned by get_arxiv_dates
AppRunPipeline ==
    /\ wpc = "returned"
    /\ Idle
    /\ BeginInvocation
    /\ LaunchPipeline(<<strftime(window.start_date), ":",
                        strftime(window.end_date)>>)
    /\ wpc' = "pipeline"
    /\ UNCHANGED <<utc_now, et_offset, days_to_show, window>>
    /\ UNCHANGED evars
    /\ UNCHANGED procs

\* app.py line 199, app.load: the page is loaded once more
AppReload ==
    /\ wpc = "pipeline"
    /\ o_pc = "done"
    /\ runs < MaxRuns
    /\ wpc' = "call"
    /\ UNCHANGED <<utc_now, et_offset, days_to_show, window>>
    /\ UNCHANGED <<evars, fvars, svars, ovars, hvars>>
    /\ UNCHANGED procs

\* the instants at which the page is loaded: around the cutoff on Friday
\* 2024-03-15 and Saturday 2024-03-16, where the range of DAYS_TO_SHOW
\* update days lies within the dates of DateTable
AppInstants ==
    {t \in [day : {8, 9}, hour : {17, 18}, minute : {0, 59}] :
        LET w == get_arxiv_dates(t, 4, DAYS_TO_SHOW)
        IN  w.start_date >= 0 /\ w.end_date < Len(DateTable)}

\* the installation of app.py: one category, papers on a Friday and a Monday
InitApp ==
    /\ answers = {"ok", "error"}
    /\ utc_now \in AppInstants
    /\ et_offset = 4
    /\ days_to_show = DAYS_TO_SHOW
    /\ window = [start_date |-> 0, end_date |-> 0]
    /\ wpc = "call"
    /\ catalog \in {[c \in {csAI, statML} |-> <<>>],
                    [c \in {csAI, statML} |->
                        IF c = csAI THEN <<Result(4, 1), Result(1, 1)>> ELSE <<>>]}
    /\ files = EmptyDir
    /\ FetcherOff /\ SummarizerOff /\ HistoryOff
    /\ o_pc = "off"
    /\ o_args = [categories |-> <<csAI>>, date |-> <<>>, start_date |-> 0, end_date |-> 0]
    /\ current_date = 0
    /\ exit_code = 0
    /\ visited = <<>>
    /\ failed = {}

InitFetch ==
    /\ answers = {"ok", "error"}
    /\ WindowIdle
    /\ \E a \in SortedFeeds(MaxFeed) \cup FailingFeeds(MaxFeed),
          b \in SortedFeeds(MaxFeed - 2) \cup FailingFeeds(MaxFeed - 2) :
          catalog = [c \in {csAI, statML} |-> IF c = csAI THEN a ELSE b]
    /\ files = EmptyDir
    /\ FetcherOff /\ SummarizerOff /\ OrchestratorOff /\ HistoryOff

\* the files the summarizer run on its own finds in the directory: written
\* by the fetcher (no summarization column) or by an earlier summarizer run
\* or by hand (summarization cells filled or empty)
Annotations == {"", get_summary_from_zai("ok"), get_summary_from_zai("error")}
TablesOf(category, date, n) ==
    {[has_summarization |-> h,
      rows |-> [i \in 1..n |->
                   [arxiv_url |-> <<date, i>>, published_date |-> strftime(date),
                    summarization |-> a[i], query |-> category]],
      shape |-> "csv"] :
        h \in BOOLEAN, a \in [1..n -> Annotations]}
StoredTables ==
    {t \in UNION {TablesOf(csAI, 1, n) : n \in 1..MaxRows} :
        t.has_summarization \/ \A i \in 1..Len(t.rows) : t.rows[i].summarization = ""}

InitEnrich ==
    /\ answers = AnnotatorOutcomes
    /\ WindowIdle
    /\ catalog = [c \in {csAI, statML} |-> <<>>]
    /\ \E t \in StoredTables, more \in BOOLEAN :
          files = IF more
                  THEN to_csv(to_csv(EmptyDir, output_filename(<<csAI>>, <<>>, 1), t),
                              output_filename(<<csAI, statML>>, <<>>, 1),
                              [has_summarization |-> FALSE,
                               rows |-> <<NewRow(Result(1, 1), statML)>>,
                               shape |-> "csv"])
                  ELSE to_csv(EmptyDir, output_filename(<<csAI>>, <<>>, 1), t)
    /\ FetcherOff /\ SummarizerOff /\ OrchestratorOff /\ HistoryOff

\* files that are in the directory but were not left by a finished write
\* of these programs: cut off, garbled or edited by hand
CorruptTables ==
    {Truncated} \cup
    {[t EXCEPT !.shape = "no_title"] : t \in {u \in StoredTables : Len(u.rows) = 1}}

\* the directory holds a file for 2024-03-08, sound or not, written with or
\* without --keywords, for cs.AI alone or for cs.AI and stat.ML; the catalog
\* has a cs.AI paper on that date and on the next
InitStored ==
    /\ answers = AnnotatorOutcomes
    /\ WindowIdle
    /\ catalog = [c \in {csAI, statML} |->
                     IF c = csAI THEN <<Result(2, 1), Result(1, 1)>> ELSE <<>>]
    /\ \E t \in CorruptTables \cup {u \in StoredTables : Len(u.rows) = 1},
          keywords \in KeywordLists, categories \in PipelineCatLists :
          files = to_csv(EmptyDir, output_filename(categories, keywords, 1), t)
    /\ FetcherOff /\ SummarizerOff /\ HistoryOff
    /\ o_pc = "off"
    /\ o_args = [categories |-> <<csAI>>, date |-> <<>>, start_date |-> 0, end_date |-> 0]
    /\ current_date = 0
    /\ exit_code = 0
    /\ visited = <<>>
    /\ failed = {}

(* ======================================================================= *)
(*        overlapping invocations of run_pipeline.py (app.py line 199)      *)
(* ======================================================================= *)
\* Two page loads, or a page load and a manual run, start run_pipeline.py
\* twice over the same directory with the same arguments.  Each invocation
\* is followed through check_and_run_pipeline and its two sub-processes:
\*   "check"   before os.listdir           (run_pipeline.py line 23)
\*   "step1"   the fetcher is running      (line 43), before its to_csv
\*   "write1"  the fetcher is inside dataframe.to_csv, the file is open
\*   "step2"   the summarizer is running   (line 63), before find_csv_files
\*   "rows"    process_file between two annotator calls
\*   "call"    inside get_summary_from_zai, the call is outstanding
\*   "write2"  process_file is inside df.to_csv, the file is open
\*   "done"    run_pipeline.py has exited
\*   "dead"    the invocation and its sub-process were killed

\* python run_pipeline.py --categories cs.AI --date 2024-03-08
OverlapArgs == [categories |-> <<csAI>>, date |-> CHOOSE d \in FetchDates : TRUE]
OverlapFile == output_filename(OverlapArgs.categories, <<>>, OverlapArgs.date)

\* DataFrame.to_csv opens the file for writing, which truncates it, writes
\* the header and the rows and closes it.  Until it is closed the file
\* holds nothing or the header and the first rows.
HalfWritten(table) ==
    {Truncated} \cup
    {[table EXCEPT !.rows = SubSeq(table.rows, 1, j)] :
        j \in 1..(Len(table.rows) - 1)}

\* the rows the fetcher gathers for OverlapArgs: main lines 122-136
collected_rows ==
    LET cats == OverlapArgs.categories
        got  == [i \in 1..Len(cats) |->
                    fetch_arxiv_papers_by_date(
                        client_results(catalog, cats[i], <<>>), cats[i],
                        strftime_compact(OverlapArgs.date)).papers_data]
    IN  drop_duplicates(concat(SelectSeq(got, LAMBDA d : d # <<>>)))

\* main lines 75-120: the invocation is started
OStart(p) ==
    /\ procs[p].pc = "off"
    /\ procs' = [procs EXCEPT ![p].pc = "check"]
    /\ UNCHANGED <<evars, fvars, svars, ovars, hvars, wvars>>

\* check_and_run_pipeline lines 19-43: the directory is listed; when no
\* file matches, the fetcher is started
OCheck(p) ==
    /\ procs[p].pc = "check"
    /\ procs' = [procs EXCEPT ![p].pc =
                    IF file_found(DOMAIN files, OverlapArgs.categories,
                                  OverlapArgs.date)
                    THEN "done" ELSE "step1"]
    /\ UNCHANGED <<evars, fvars, svars, ovars, hvars, wvars>>

\* arxiv_daily_fetcher.py main lines 122-149 and save_to_csv up to the
\* opening of the file by to_csv; nothing is opened when no row was found
OCollect(p) ==
    /\ procs[p].pc = "step1"
    /\ IF collected_rows = <<>>
       THEN /\ procs' = [procs EXCEPT ![p].pc = "step2"]
            /\ UNCHANGED files
       ELSE LET table == [has_summarization |-> FALSE, rows |-> collected_rows,
                          shape |-> "csv"]
            IN  /\ procs' = [procs EXCEPT ![p].pc = "write1", ![p].df = table]
                /\ \E h \in HalfWritten(table) :
                      files' = to_csv(files, OverlapFile, h)
    /\ UNCHANGED <<catalog, answers, fvars, svars, ovars, hvars, wvars>>

\* save_to_csv line 64 returns: the file is complete and closed; the
\* fetcher exits and the summarizer is started (run_pipeline.py line 63)
OCollectSaved(p) ==
    /\ procs[p].pc = "write1"
    /\ files' = to_csv(files, OverlapFile, procs[p].df)
    /\ procs' = [procs EXCEPT ![p].pc = "step2", ![p].df = NoTable]
    /\ UNCHANGED <<catalog, answers, fvars, svars, ovars, hvars, wvars>>

\* summarize_by_zai.py main lines 153-166 and process_file lines 68-88:
\* the files are looked up, the file is read.  pd.read_csv raises on a file
\* that cannot be parsed; only FileNotFoundError is caught, so the
\* summarizer ends with a traceback and check_and_run_pipeline takes the
\* except branch of lines 65-68.
OSummarize(p) ==
    /\ procs[p].pc = "step2"
    /\ LET found == find_csv_files(DOMAIN files, OverlapArgs.categories,
                                   OverlapArgs.date, OverlapArgs.date)
       IN  IF found = {}
           THEN procs' = [procs EXCEPT ![p].pc = "done"]
           ELSE LET table == read_csv(files[OverlapFile]).table
                    todo  == rows_to_process(table)
                IN  IF read_csv(files[OverlapFile]).raised
                    THEN procs' = [procs EXCEPT ![p].pc = "done",
                                                ![p].failed = TRUE]
                    ELSE IF todo = <<>>
                    THEN procs' = [procs EXCEPT ![p].pc = "done"]
                    ELSE procs' = [procs EXCEPT ![p].pc = "rows",
                                                ![p].df = with_column(table),
                                                ![p].to_process = todo,
                                                ![p].k = 1]
    /\ UNCHANGED <<evars, fvars, svars, ovars, hvars, wvars>>

\* process_file line 95: get_summary_from_zai is called for the next row
OCall(p) ==
    /\ procs[p].pc = "rows"
    /\ procs[p].k <= Len(procs[p].to_process)
    /\ procs' = [procs EXCEPT ![p].pc = "call"]
    /\ UNCHANGED <<evars, fvars, svars, ovars, hvars, wvars>>

\* process_file lines 95-98: the call returns, the text is put in the row
OCallReturns(p) ==
    /\ procs[p].pc = "call"
    /\ \E outcome \in answers :
          procs' = [procs EXCEPT
                       ![p].pc = "rows",
                       ![p].df.rows[procs[p].to_process[procs[p].k]].summarization
                           = get_summary_from_zai(outcome),
                       ![p].k = procs[p].k + 1]
    /\ UNCHANGED <<evars, fvars, svars, ovars, hvars, wvars>>

\* process_file line 102: df.to_csv opens the file after the last row
OEnrichOpen(p) ==
    /\ procs[p].pc = "rows"
    /\ procs[p].k > Len(procs[p].to_process)
    /\ \E h \in HalfWritten(procs[p].df) :
          files' = to_csv(files, OverlapFile, h)
    /\ procs' = [procs EXCEPT ![p].pc = "write2"]
    /\ UNCHANGED <<catalog, answers, fvars, svars, ovars, hvars, wvars>>

\* process_file line 102 returns: the file is complete and closed; the
\* summarizer and then run_pipeline.py exit
OEnrichSaved(p) ==
    /\ procs[p].pc = "write2"
    /\ files' = to_csv(files, OverlapFile, procs[p].df)
    /\ procs' = [procs EXCEPT ![p].pc = "done"]
    /\ UNCHANGED <<catalog, answers, fvars, svars, ovars, hvars, wvars>>

\* the invocation and its sub-process are killed (Ctrl-C, power loss, the
\* server is stopped); a file that is open stays as it is
OKill(p) ==
    /\ procs[p].pc \notin {"off", "done", "dead"}
    /\ procs' = [procs EXCEPT ![p].pc = "dead"]
    /\ UNCHANGED <<evars, fvars, svars, ovars, hvars, wvars>>

\* the catalog while the invocations overlap: up to two cs.AI papers of
\* the date
OverlapFeeds ==
    {<<>>, <<Result(OverlapArgs.date, 1)>>,
     <<Result(OverlapArgs.date, 1), Result(OverlapArgs.date, 2)>>}

InitOverlap ==
    /\ answers = AnnotatorOutcomes
    /\ WindowIdle
    /\ \E a \in OverlapFeeds :
          catalog = [c \in {csAI, statML} |-> IF c = csAI THEN a ELSE <<>>]
    /\ files = EmptyDir
    /\ FetcherOff /\ SummarizerOff /\ OrchestratorOff /\ HistoryOff

vars == <<wvars, evars, fvars, svars, ovars, hvars, cvars>>

NextOverlap ==
    \/ \E p \in Procs : OStart(p)
    \/ \E p \in Procs : OCheck(p)
    \/ \E p \in Procs : OCollect(p)
    \/ \E p \in Procs : OCollectSaved(p)
    \/ \E p \in Procs : OSummarize(p)
    \/ \E p \in Procs : OCall(p)
    \/ \E p \in Procs : OCallReturns(p)
    \/ \E p \in Procs : OEnrichOpen(p)
    \/ \E p \in Procs : OEnrichSaved(p)
    \/ \E p \in Procs : OKill(p)

SpecOverlap == InitOverlap /\ [][NextOverlap]_vars

Next ==
    \/ PipelineStart
    \/ UnitFound
    \/ UnitStep1
    \/ FetchCategory
    \/ FetcherCombine
    \/ UnitStep2
    \/ ProcessFileLoad
    \/ AnnotateRow
    \/ ProcessFileSave
    \/ UnitDone
    \/ PipelineExit

Spec == Init /\ [][Next]_vars

NextStored ==
    \/ PipelineStart
    \/ UnitFound
    \/ UnitStep1
    \/ FetchCategory
    \/ FetcherCombine
    \/ UnitStep2
    \/ ProcessFileLoad
    \/ AnnotateRow
    \/ ProcessFileSave
    \/ UnitDone
    \/ PipelineExit
    \/ SummarizerStart

SpecStored == InitStored /\ [][NextStored]_vars

NextEnrich ==
    \/ SummarizerStart
    \/ ProcessFileLoad
    \/ AnnotateRow
    \/ ProcessFileSave
    \/ Interrupt

SpecEnrich == InitEnrich /\ [][NextEnrich]_vars

NextApp ==
    \/ GetArxivDates
    \/ AppRunPipeline
    \/ AppReload
    \/ UnitFound
    \/ UnitStep1
    \/ FetchCategory
    \/ FetcherCombine
    \/ UnitStep2
    \/ ProcessFileLoad
    \/ AnnotateRow
    \/ ProcessFileSave
    \/ UnitDone
    \/ PipelineExit

SpecApp == InitApp /\ [][NextApp]_vars

NextWindow == GetArxivDates

SpecWindow == InitWindow /\ [][NextWindow]_vars

NextFetch ==
    \/ FetcherStart
    \/ FetchCategory
    \/ FetcherCombine

SpecFetch == InitFetch /\ [][NextFetch]_vars

\* number of Monday-Friday dates in the inclusive range [a, b]
WeekdaysIn(a, b) == Cardinality({d \in a..b : weekday(d) < 5})

(* ======================================================================= *)
(*                                 claims                                  *)
(* ======================================================================= *)

(* ----------------------------- claim C1 -------------------------------- *)
\* C1: for every instant and every requiredUnits, get_arxiv_dates returns
\* firstUnit <= lastUnit and exactly requiredUnits weekdays lie in
\* [firstUnit, lastUnit], also when lastUnit is a Saturday or Sunday.
C1_WindowHasRequiredWeekdays ==
    wpc = "returned" =>
        /\ window.start_date <= window.end_date
        /\ WeekdaysIn(window.start_date, window.end_date) = days_to_show
\* a table has a row whose summarization cell is missing or empty
HasPending(table) ==
    \E i \in 1..Len(table.rows) :
        ~table.has_summarization \/ table.rows[i].summarization = ""

\* the index labels of the rows of a table that are pending
PendingRows(table) ==
    {i \in 1..Len(table.rows) :
        ~table.has_summarization \/ table.rows[i].summarization = ""}

\* the dates of the range of the current run_pipeline.py invocation
RangeOfRun == o_args.start_date..o_args.end_date

(* ----------------------------- claim C2 -------------------------------- *)
\* C2: when run_pipeline.py has run to its end and is run again with the same
\* categories and dates while the catalog answers the same, and the
\* collection of the first run met no failure, the second run leaves every
\* file as the first run left it and calls the annotator for no row.
C2_SecondRunChangesNothing ==
    (o_pc = "done" /\ before.kind = "pipeline" /\ before.args = o_args
        /\ ~before.collect_failed)
    => (files = files0 /\ run_calls = {})

\* a second identical run has ended over a directory that holds a file with
\* an annotated row
C2_Witness ==
    /\ o_pc = "done" /\ before.kind = "pipeline" /\ before.args = o_args
    /\ ~before.collect_failed
    /\ visited # <<>>
    /\ \E fn \in DOMAIN files : \E i \in 1..Len(files[fn].rows) :
          files[fn].rows[i].summarization # ""

(* ----------------------------- claim C3 -------------------------------- *)
\* C3: whenever check_and_run_pipeline has handled a date whose file existed
\* with at least one pending row when the invocation started, the file has
\* been enriched and saved: it has no pending row any more.
C3_ExistingPendingIsEnriched ==
    o_pc \in {"loop", "done"} =>
        \A k \in 1..Len(visited) :
            \A fn \in matching_files(DOMAIN files0, o_args.categories,
                                     strftime(visited[k])) :
                (visited[k] < current_date /\ HasPending(files0[fn]))
                    => ~HasPending(files[fn])

(* ----------------------------- claim C4 -------------------------------- *)
\* C4: when the process is interrupted during process_file, every row whose
\* annotator call had returned is non-pending in the stored file, and the
\* rows not yet attempted are still pending there.
C4_ReturnedCallsSurviveInterrupt ==
    s_pc = "killed" =>
        /\ \A k \in 1..Len(pass_calls) :
              pass_calls[k].index \notin PendingRows(files[filepath])
        /\ \A k \in s_k..Len(to_process) :
              to_process[k] \in PendingRows(files[filepath])

(* ----------------------------- claim C5 -------------------------------- *)
\* C5: when run_pipeline.py has ended, every date of the range has been given
\* to check_and_run_pipeline, whichever dates failed in step 1 or step 2.
C5_FailedUnitDoesNotStopRun ==
    o_pc = "done" =>
        \A d \in RangeOfRun : \E k \in 1..Len(visited) : visited[k] = d

\* a run has ended in which a date failed and a later date was handled
C5_Witness ==
    /\ o_pc = "done"
    /\ \E d \in failed : \E k \in 1..Len(visited) : visited[k] > d

(* ----------------------------- claim C6 -------------------------------- *)
\* C6: run_pipeline.py exits with a failure status exactly when some date of
\* the invocation failed, and run_data_pipeline returns True exactly when no
\* date failed.
C6_ExitCodeReflectsFailure ==
    o_pc = "done" =>
        /\ (exit_code # 0) <=> (failed # {})
        /\ run_data_pipeline_result(exit_code) <=> (failed = {})

(* ----------------------------- claim C7 -------------------------------- *)
\* process_file has returned for the file filepath
PassEnded == filepath # NoFile /\ s_pc \in {"files", "exit"}

C8_FailureIsRecordedAndLoopGoesOn ==
    /\ \A k \in 1..Len(pass_calls) :
          /\ pass_calls[k].outcome = "error"
                => df.rows[pass_calls[k].index].summarization
                       = get_summary_from_zai("error")
          /\ df.rows[pass_calls[k].index].summarization # ""
          /\ Cardinality({i \in PendingRows(df0) : i < pass_calls[k].index}) = k - 1
    /\ (s_pc = "rows" /\ Len(pass_calls) < Cardinality(PendingRows(df0)))
          => ENABLED AnnotateRow
    /\ PassEnded => Len(pass_calls) = Cardinality(PendingRows(df0))

\* a pass has ended in which a call failed and a later row was still called
C8_Witness ==
    /\ PassEnded
    /\ \E j, k \in 1..Len(pass_calls) :
          j < k /\ pass_calls[j].outcome = "error"

(* ----------------------------- claim C9 -------------------------------- *)
\* the rows gathered from all categories, in query order
GatheredRows == concat(all_papers_dfs)

\* C9: the file written by the fetcher has no two rows with the same
\* arxiv_url, holds every gathered arxiv_url, and the row kept for an
\* arxiv_url is its first occurrence in query order.
C9_RowsUniqueKeepFirst ==
    f_pc = "exit" =>
        \A fn \in DOMAIN files :
            LET rows == files[fn].rows
            IN  /\ \A i, j \in 1..Len(rows) :
                      i # j => rows[i].arxiv_url # rows[j].arxiv_url
                /\ \A g \in 1..Len(GatheredRows) :
                      \E i \in 1..Len(rows) :
                          rows[i].arxiv_url = GatheredRows[g].arxiv_url
                /\ \A i \in 1..Len(rows) :
                      \E g \in 1..Len(GatheredRows) :
                          /\ rows[i] = GatheredRows[g]
                          /\ \A h \in 1..(g - 1) :
                                GatheredRows[h].arxiv_url # rows[i].arxiv_url

\* a file was written although two category queries returned the same paper
C9_Witness ==
    /\ f_pc = "exit"
    /\ files # EmptyDir
    /\ \E g, h \in 1..Len(GatheredRows) :
          /\ g # h
          /\ GatheredRows[g].arxiv_url = GatheredRows[h].arxiv_url
          /\ GatheredRows[g].query # GatheredRows[h].query

(* ----------------------------- claim C10 ------------------------------- *)
\* the answer of the catalog to the k-th category query of the fetcher run
FeedOfQuery(k) == client_results(catalog, f_args.categories[k], f_args.keywords)

\* the position at which reading the feed ends: the first result older than
\* the date or the first error, else the end of the feed
StopPosition(feed, date) ==
    LET stops == {i \in 1..Len(feed) :
                     feed[i].kind = "error" \/ feed[i].published < date}
    IN  IF stops = {} THEN Len(feed)
        ELSE CHOOSE i \in stops : \A j \in stops : i <= j

\* the arxiv_url of the results published on the date among the first n
RECURSIVE UrlsOnDate(_, _, _)
UrlsOnDate(feed, date, n) ==
    IF n = 0 THEN <<>>
    ELSE UrlsOnDate(feed, date, n - 1) \o
         (IF feed[n].kind = "item" /\ feed[n].published = date
          THEN <<feed[n].entry_id>> ELSE <<>>)

\* C10: for every category queried, the collector has read the feed up to
\* and including the first result older than the date and no further, and
\* its rows are the results published on the date among those read, in feed
\* order; on a feed without error these are all the results of the feed
\* published on the date.
C10_StopsAtFirstOlder ==
    \A k \in 1..Len(f_log) :
        LET feed == FeedOfQuery(k)
            date == strptime(f_args.date)
            urls == [i \in 1..Len(f_log[k].papers_data) |->
                        f_log[k].papers_data[i].arxiv_url]
        IN  /\ f_log[k].read = StopPosition(feed, date)
            /\ urls = UrlsOnDate(feed, date, f_log[k].read)
            /\ (\A i \in 1..Len(feed) : feed[i].kind = "item")
                  => urls = UrlsOnDate(feed, date, Len(feed))

\* a query answered a newer result, a result of the date and an older one
C10_Witness ==
    /\ f_pc = "exit"
    /\ \E k \in 1..Len(f_log) :
          LET feed == FeedOfQuery(k)
              date == strptime(f_args.date)
          IN  /\ Len(feed) = 3
              /\ \A i \in 1..3 : feed[i].kind = "item"
              /\ feed[1].published > date
              /\ feed[2].published = date
              /\ feed[3].published < date
              /\ f_log[k].read = 3
              /\ Len(f_log[k].papers_data) = 1

(* ----------------------------- claim C11 ------------------------------- *)
\* the file the fetcher run writes to
OutputFile ==
    output_filename(f_args.categories, f_args.keywords, strptime(f_args.date))

\* C11: when the fetcher has ended, every category of the call has been
\* queried, also after a query that raised an error, and every row of a
\* category whose query raised no error is in the file written, unless the
\* write itself failed.
C11_ErrorInOneCategoryIsContained ==
    f_pc = "exit" =>
        /\ Len(f_log) = Len(f_args.categories)
        /\ ~collect_failed =>
              \A k \in 1..Len(f_log) :
                  ~f_log[k].raised =>
                      \A i \in 1..Len(f_log[k].papers_data) :
                          /\ OutputFile \in DOMAIN files
                          /\ \E j \in 1..Len(files[OutputFile].rows) :
                                files[OutputFile].rows[j].arxiv_url
                                    = f_log[k].papers_data[i].arxiv_url

\* the query of the first category raised an error, the query of the second
\* category returned a row, and the file was written
C11_Witness ==
    /\ f_pc = "exit"
    /\ Len(f_log) = 2
    /\ f_log[1].raised
    /\ ~f_log[2].raised
    /\ f_log[2].papers_data # <<>>
    /\ OutputFile \in DOMAIN files

(* ----------------------------- claim C12 ------------------------------- *)
\* C12: a category whose query raised an error has no row in the file the
\* fetcher writes, as a category whose query returned nothing, also when
\* results of the date were read before the error.
C12_ErrorCategoryContributesNothing ==
    f_pc = "exit" =>
        \A k \in 1..Len(f_log) :
            f_log[k].raised =>
                \A fn \in DOMAIN files : \A j \in 1..Len(files[fn].rows) :
                    files[fn].rows[j].query # f_args.categories[k]

(* ----------------------------- claim C13 ------------------------------- *)
\* the catalog holds no result published on the date in any of the categories
EmptyUnit(categories, d) ==
    \A i \in 1..Len(categories) :
        \A j \in 1..Len(catalog[categories[i]]) :
            catalog[categories[i]][j].published # d

\* C13: whatever invocations of run_pipeline.py have run, no file exists for
\* a date on which the catalog holds nothing in any category, and whenever an
\* invocation comes to such a date it does not take the file-found branch:
\* it starts step 1, the fetcher, again.
C13_EmptyUnitIsCollectedAgain ==
    /\ \A d \in Days :
          EmptyUnit(o_args.categories, d)
              => matching_files(DOMAIN files, o_args.categories, strftime(d)) = {}
    /\ (/\ o_pc = "loop"
        /\ current_date <= o_args.end_date
        /\ EmptyUnit(o_args.categories, current_date))
          => (ENABLED UnitStep1 /\ ~ENABLED UnitFound)

\* in a second invocation over the same dates the fetcher has run once more
\* for a date without any result and has written nothing
C13_Witness ==
    /\ runs = 2
    /\ before.kind = "pipeline"
    /\ current_date \in before.args.start_date..before.args.end_date
    /\ o_pc = "step1"
    /\ f_pc = "exit"
    /\ Len(f_log) = Len(o_args.categories)
    /\ EmptyUnit(o_args.categories, current_date)
    /\ matching_files(DOMAIN files, o_args.categories, strftime(current_date)) = {}

(* ----------------------------- claim C14 ------------------------------- *)
\* C14: while the range returned by get_arxiv_dates is worked through by
\* run_data_pipeline and run_pipeline.py, the fetcher is never started for a
\* Saturday or a Sunday.
C14_NoCollectionOnWeekend ==
    f_pc # "off" => weekday(strptime(f_args.date)) < 5

(* ----------------------------- claim C15 ------------------------------- *)
\* the invocations that have the file open for writing
Writers == {p \in Procs : procs[p].pc \in {"write1", "write2"}}

\* C15: when two invocations of run_pipeline.py overlap over the same
\* directory and the same date, at most one of them at a time has the file of
\* that date open for writing.
C15_SingleWriterPerPath == Cardinality(Writers) <= 1

(* ----------------------------- claim C16 ------------------------------- *)
\* C16: whenever no program is inside a write, also after an invocation was
\* killed in the middle of to_csv, every file that the existence check of
\* check_and_run_pipeline accepts can be loaded by pd.read_csv.
C16_NoHalfWrittenArtifact ==
    Writers = {} =>
        \A fn \in matching_files(DOMAIN files, OverlapArgs.categories,
                                 strftime(OverlapArgs.date)) :
            files[fn].shape # "unparsable"

(* ----------------------------- claim C17 ------------------------------- *)
\* a file that read_csv cannot parse, or that lacks the column title or
\* summary read by process_file
Corrupt(content) == content.shape # "csv"

WellFormedDateArgs ==
    LET dates == {DateTable[i] : i \in 1..Len(DateTable)}
    IN  {<<a>> : a \in dates} \cup {<<a, ":", b>> : a \in dates, b \in dates}

\* C18: when run_pipeline.py was started with a --date that is neither a
\* date nor a range of two dates, it has stopped at once: no date was given
\* to check_and_run_pipeline, neither the fetcher nor the summarizer was
\* started, no annotator call was made and no file has changed.
C18_MalformedDateStopsAtOnce ==
    (o_pc # "off" /\ o_args.date \notin WellFormedDateArgs) =>
        /\ o_pc = "rejected"
        /\ visited = <<>>
        /\ f_pc = "off"
        /\ s_pc = "off"
        /\ run_calls = {}
        /\ files = files0
        /\ ~ENABLED UnitStep1
        /\ ~ENABLED UnitFound

\* run_pipeline.py was started with a range whose end is not a date, in a
\* directory where the start of the range has no file yet
C18_Witness ==
    /\ o_pc = "rejected"
    /\ Len(o_args.date) = 3
    /\ is_date(<<o_args.date[1]>>)
    /\ ~file_found(DOMAIN files, o_args.categories, strptime(o_args.date[1]))

(* ----------------------------- claim C19 ------------------------------- *)
\* the set of the categories in a --categories list
category_set(categories) == {categories[i] : i \in 1..Len(categories)}

\* C19: a file the fetcher wrote for a list of categories and a date is
\* found by the prefix and suffix test of check_and_run_pipeline for that
\* date and every list of the same categories, in whatever order.
C19_NameIndependentOfCategoryOrder ==
    (f_pc = "exit" /\ OutputFile \in DOMAIN files) =>
        \A categories \in CatLists :
            category_set(categories) = category_set(f_args.categories)
                => matching_files(DOMAIN files, categories, f_args.date) # {}

(* ----------------------------- claim C20 ------------------------------- *)
\* the minutes from day 0, 00:00 US/Eastern to the instant utc_now
EasternMinutes == utc_now.day * 1440 + utc_now.hour * 60 + utc_now.minute
                      - et_offset * 60

C21_MondaySevenDaysStartsFridayTenBack ==
    (wpc = "returned" /\ days_to_show = 7 /\ weekday(window.end_date) = 0) =>
        /\ window.start_date = window.end_date - 10
        /\ weekday(window.start_date) = 4
        /\ Cardinality({d \in window.start_date..window.end_date :
                            weekday(d) >= 5}) = 4

\* get_arxiv_dates(7) returned Monday 2024-03-11 as end date
C21_Witness ==
    /\ wpc = "returned"
    /\ days_to_show = 7
    /\ window.end_date = 4
    /\ weekday(window.end_date) = 0

(* ----------------------------- claim C22 ------------------------------- *)
\* the names the fetcher gives the file of a date, without and with keywords
NamesOfUnit(categories, d) ==
    {output_filename(categories, keywords, d) : keywords \in KeywordLists}

FailureSentinel == "API call failed: e"

\* the stored rows whose summarization cell holds the failure text
SentinelRows ==
    {<<fn, i>> \in UNION {{fn} \X (1..Len(files[fn].rows)) : fn \in DOMAIN files} :
        /\ files[fn].has_summarization
        /\ files[fn].rows[i].summarization = FailureSentinel}

\* C23: a stored row whose summarization cell holds the failure text keeps
\* that text in every step of every later summarizer run, and no annotator
\* call is made for it.
C23_FailureSentinelIsNeverRetried ==
    [][\A r \in SentinelRows :
          /\ r[1] \in DOMAIN files'
          /\ Len(files'[r[1]].rows) >= r[2]
          /\ files'[r[1]].rows[r[2]].summarization = FailureSentinel
          /\ (Len(pass_calls') > Len(pass_calls) /\ filepath = r[1])
                => pass_calls'[Len(pass_calls')].index # r[2]]_vars

\* a second summarizer run has ended over a file that held a row with the
\* failure text and a pending row: the pending row was called, the other
\* was not and still holds the failure text
C23_Witness ==
    /\ s_pc = "exit"
    /\ runs = 2
    /\ saved = "ok"
    /\ pass_calls # <<>>
    /\ \E i \in 1..Len(df0.rows) :
          /\ df0.has_summarization
          /\ df0.rows[i].summarization = FailureSentinel
          /\ files[filepath].rows[i].summarization = FailureSentinel
          /\ \A k \in 1..Len(pass_calls) : pass_calls[k].index # i

(* ----------------------------- claim C24 ------------------------------- *)
\* C24: inside one run of run_pipeline.py the summarizer is started only by
\* step 2 of the date whose fetcher has just exited, and is never running
\* while the fetcher is; a step 1 that failed or could not be started moves
\* the loop to the next date with no summarizer started.
C24_EnrichmentOnlyAfterCollection ==
    [][/\ (o_pc \in {"loop", "step1", "step2"} /\ s_pc = "off" /\ s_pc' # "off")
            => /\ o_pc = "step1"
               /\ o_pc' = "step2"
               /\ f_pc = "exit"
               /\ f_args.date = strftime(current_date)
               /\ current_date' = current_date
               /\ current_date \notin failed
       /\ (o_pc = "loop" /\ failed' # failed)
            => /\ s_pc = "off"
               /\ s_pc' = "off"
               /\ o_pc' = "loop"
               /\ current_date' > current_date
       /\ (o_pc' = "step1") => (s_pc' = "off")]_vars

\* step 2 runs for a date whose file the fetcher of this run has written
C24_Witness ==
    /\ o_pc = "step2"
    /\ s_pc \in {"files", "rows"}
    /\ visited # <<>>
    /\ visited[Len(visited)] = current_date
    /\ output_filename(o_args.categories, <<>>, current_date) \in DOMAIN files
    /\ output_filename(o_args.categories, <<>>, current_date) \notin DOMAIN files0

(* ----------------------------- claim C25 ------------------------------- *)
\* C25: the dates run_pipeline.py has given to check_and_run_pipeline are
\* the dates from the start date upwards, one by one, none twice and none
\* beyond the end date; when it has ended they are all the dates of the
\* range, none when the start date is after the end date.  A stage that is
\* running belongs to the date given last, and the loop holds no running
\* stage when it takes the next date.
C25_UnitsInAscendingOrderOneAtATime ==
    (o_pc \in {"loop", "step1", "step2", "done"}) =>
        /\ \A k \in 1..Len(visited) : visited[k] = o_args.start_date + k - 1
        /\ \A k \in 1..Len(visited) : visited[k] <= o_args.end_date
        /\ o_pc = "done" =>
              Len(visited) = IF o_args.start_date > o_args.end_date THEN 0
                             ELSE o_args.end_date - o_args.start_date + 1
        /\ o_pc \in {"loop", "done"} => (f_pc = "off" /\ s_pc = "off")
        /\ f_pc # "off" =>
              (o_pc = "step1" /\ f_args.date = strftime(visited[Len(visited)]))
        /\ s_pc # "off" =>
              (/\ o_pc = "step2"
               /\ f_pc = "off"
               /\ csv_files \subseteq
                      matching_files(DOMAIN files, o_args.categories,
                                     strftime(visited[Len(visited)])))

\* run_pipeline.py has ended over a range of two dates; both got their
\* file in this run, the earlier date first
C25_Witness ==
    /\ o_pc = "done"
    /\ o_args.start_date < o_args.end_date
    /\ visited = <<o_args.start_date, o_args.end_date>>
    /\ \A d \in RangeOfRun :
          /\ output_filename(o_args.categories, <<>>, d) \in DOMAIN files
          /\ output_filename(o_args.categories, <<>>, d) \notin DOMAIN files0

(* ----------------------------- claim C26 ------------------------------- *)
\* the annotations a directory holds: file, paper, text
StoredAnnotations(dir) ==
    {<<fn, dir[fn].rows[i].arxiv_url, dir[fn].rows[i].summarization>> :
        <<fn, i>> \in {q \in UNION {{fn} \X (1..Len(dir[fn].rows)) : fn \in DOMAIN dir} :
                          /\ dir[q[1]].has_summarization
                          /\ dir[q[1]].rows[q[2]].summarization # ""}}

\* C26: when invocations of run_pipeline.py overlap, a write of the fetcher
\* (to_csv opening the file, or completing it) replaces no file that holds
\* annotations: every annotation stored before the step is stored after it.
C26_CollectionKeepsStoredAnnotations ==
    [][(\E p \in Procs : \/ procs[p].pc = "step1" /\ procs'[p].pc = "write1"
                         \/ procs[p].pc = "write1" /\ procs'[p].pc = "step2")
          => StoredAnnotations(files) \subseteq StoredAnnotations(files')]_vars

(* ----------------------------- claim C27 ------------------------------- *)
\* the papers of the file for which a call of get_summary_from_zai made by
\* invocation p has not returned yet
OutstandingCalls(p) ==
    IF procs[p].pc = "call"
    THEN {procs[p].df.rows[procs[p].to_process[procs[p].k]].arxiv_url}
    ELSE {}

\* C27: when invocations of run_pipeline.py overlap, no two of them are at
\* the same time inside get_summary_from_zai for the same row of the file.
C27_OneOutstandingCallPerRow ==
    \A p \in Procs, q \in Procs :
        p # q => OutstandingCalls(p) \cap OutstandingCalls(q) = {}

(* ----------------------------- claim C28 ------------------------------- *)
\* a row without its summarization cell
OtherFields(row) == [row EXCEPT !.summarization = ""]

\* C28: in every step of runs of run_pipeline.py and summarize_by_zai.py
\* that do not overlap, every file of the directory stays in the directory
\* with the same rows in the same order, and a summarization cell that
\* holds a text keeps that text.
C28_ArtifactsAndAnnotationsAreKept ==
    [][\A fn \in DOMAIN files :
          /\ fn \in DOMAIN files'
          /\ Len(files'[fn].rows) = Len(files[fn].rows)
          /\ \A i \in 1..Len(files[fn].rows) :
                /\ OtherFields(files'[fn].rows[i]) = OtherFields(files[fn].rows[i])
                /\ (files[fn].has_summarization
                        /\ files[fn].rows[i].summarization # "")
                      => /\ files'[fn].has_summarization
                         /\ files'[fn].rows[i].summarization
                                = files[fn].rows[i].summarization]_vars

(* ----------------------------- claim C29 ------------------------------- *)
\* C29: the summarizer loads only files that the fetcher named for the
\* categories the summarizer was started with, and run_pipeline.py takes
\* the file-found branch for a date only when the directory holds a file the
\* fetcher named for its categories and that date.
C29_OnlyOwnCategoryFilesMatch ==
    /\ (s_pc \in {"rows", "died"} /\ filepath # NoFile)
          => \E d \in Days : filepath \in NamesOfUnit(s_args.categories, d)
    /\ (/\ o_pc = "loop"
        /\ current_date <= o_args.end_date
        /\ NamesOfUnit(o_args.categories, current_date) \cap DOMAIN files = {})
          => ~ENABLED UnitFound

(* ----------------------------- claim C30 ------------------------------- *)
\* a table has the rows of another in the same order, with the same fields
\* but for the summarization of the rows in changed
SameBut(new, old, changed) ==
    /\ Len(new.rows) = Len(old.rows)
    /\ \A i \in 1..Len(old.rows) :
          /\ OtherFields(new.rows[i]) = OtherFields(old.rows[i])
          /\ i \notin changed
                => new.rows[i].summarization = old.rows[i].summarization

\* C30: the table process_file works on, and the file it has saved, have
\* the rows of the table read by pd.read_csv, in the same order and with the
\* same fields; only the summarization of the rows that were pending in
\* the table read may differ.
C30_PassChangesOnlyPendingAnnotations ==
    /\ s_pc = "rows" => SameBut(df, df0, PendingRows(df0))
    /\ (filepath # NoFile /\ saved = "ok")
          => SameBut(files[filepath], df0, PendingRows(df0))

\* a pass over a file with a done and a pending row has saved the file: the
\* pending row holds a text now
C30_Witness ==
    /\ filepath # NoFile
    /\ saved = "ok"
    /\ \E i, j \in 1..Len(df0.rows) :
          /\ i \in PendingRows(df0)
          /\ j \notin PendingRows(df0)
          /\ files[filepath].rows[i].summarization # ""
          /\ files[filepath].rows[j].summarization = df0.rows[j].summarization

(* ----------------------------- claim C31 ------------------------------- *)
\* C31: when process_file has read a file in which lines 75-81 select no
\* row, it returns without entering the row loop: no call of
\* get_summary_from_zai is made for the file, to_csv is not reached and the
\* file is as it was when the program started.
C31_NothingPendingNothingDone ==
    (filepath # NoFile /\ s_pc # "died" /\ PendingRows(df0) = {}) =>
        /\ s_pc # "rows"
        /\ pass_calls = <<>>
        /\ saved = "none"
        /\ \A c \in run_calls : c[1] # filepath
        /\ files[filepath] = files0[filepath]

\* process_file has returned for a file of two or more rows that all hold
\* a summarization
C31_Witness ==
    /\ filepath # NoFile
    /\ s_pc \in {"files", "exit"}
    /\ Len(df0.rows) >= 2
    /\ df0.has_summarization
    /\ PendingRows(df0) = {}
    /\ pass_calls = <<>>
====
